---- MODULE Spec2Model ----
(***************************************************************************)
(* A model of the Wiley / MDPI scraping and downloading scripts.           *)
(*                                                                         *)
(* The scripts are independent programs, so the module holds one           *)
(* specification per program (or per pipeline of two programs):            *)
(*   SpecDL      the three Wiley PDF downloaders, main + worker pool       *)
(*   SpecIdem    one download_one call repeated on the same directory      *)
(*   SpecPdf     check_pdf_valid applied to one file                       *)
(*   SpecCookies save_profile_state (scraper) -> cookies file ->           *)
(*               load_cookies (requests-based downloader)                  *)
(*   SpecScrape  fetch_range_persistent of the persistent scraper          *)
(*   SpecSplit   split_pdf_folders                                         *)
(*   SpecExtract extract_failed_dois_from_log on the curl downloader's log *)
(*   SpecFetchPage fetch_page of the per-page scraper                      *)
(*   SpecMdpiHtml the MDPI HTML fetcher, run twice                         *)
(*   SpecSanitize, SpecDetect  sanitize and detect_captcha on one input    *)
(*   SpecTwoCaptcha solve_captcha_2captcha                                 *)
(*   SpecWait    wait_for_download_complete                                *)
(*   SpecParse   the two metadata extractors                               *)
(* All specifications share the variables below; each one leaves the       *)
(* variables of the other programs untouched.                              *)
(*                                                                         *)
(* Text (DOIs, file names, file contents) is modelled as sequences of      *)
(* one-character strings, so that sanitize, strip, startswith, lower and   *)
(* the substring tests are computed character by character.                *)
(***************************************************************************)
EXTENDS Integers, Sequences, FiniteSets, TLC

VARIABLES
    \* ---- Wiley PDF downloaders (03_download_pdfs_wiley*.py) ----
    variant,    \* which script runs: "requests", "curl" or "retry"
    meta,       \* the doi column of the CSV / the lines of the TXT file
    data,       \* main's task list: sequence of [idx, doi]
    fs,         \* the output directory: path -> file
    task,       \* per idx: the state of its download_one call
    results,    \* main's results list: the rows the pool's iterator has
                \* yielded, in the order the workers completed them
    mainPc,     \* "start", "loop", "saved" or "raised"
    run,        \* number of the current run of main on this directory
    prev,       \* what the previous run left: statuses and directory
    \* ---- check_pdf_valid on its own ----
    pdfFile,    \* the file at filepath: as given, as it is now, readable
    pdfRet,     \* "none" before the call, then "True" / "False"
    pdfVariant, \* "curl" or "retry"
    \* ---- cookies pipeline ----
    jar,        \* cookies of the browser context, oldest first
    cookieFile, \* cookies.json: the JSON document it holds, if it exists
    session,    \* cookies of the download sessions (result of load_cookies)
    ckPc,       \* "browse" (scraper running), "loaded" or "raised"
    \* ---- persistent scraper ----
    scr,        \* state of fetch_range_persistent
    \* ---- split_pdf_folders ----
    spl,        \* state of the split script
    \* ---- extract_failed_dois_from_log ----
    xl,         \* a logged curl run and the extraction from its log
    \* ---- per-page scraper (old.01_collect_html_pages.window.py) ----
    fp,         \* state of one fetch_page call
    \* ---- MDPI HTML fetcher (01_download_htmls.py) ----
    mh,         \* state of the runs of the fetcher
    \* ---- sanitize on its own ----
    san,        \* the argument and the result of one sanitize call
    \* ---- detect_captcha on its own ----
    cap,        \* the page and the result of one detect_captcha call
    \* ---- solve_captcha_2captcha ----
    tc,         \* state of one solve_captcha_2captcha call
    \* ---- wait_for_download_complete (MDPI/03_pdf_download.py) ----
    wd,         \* state of one wait_for_download_complete call
    \* ---- metadata extractors (02_parse_html_to_csv, 02_extract_metadata) ----
    px          \* state of one run of an extractor

dlVars == <<variant, meta, data, fs, task, results, mainPc, run, prev>>
pdfVars == <<pdfFile, pdfRet, pdfVariant>>
ckVars == <<jar, cookieFile, session, ckPc>>
moreVars == <<xl, fp, mh, san, cap, tc, wd, px>>
notDL == <<pdfVars, ckVars, scr, spl, moreVars>>
oldVars == <<dlVars, pdfVars, ckVars, scr, spl>>
vars == <<variant, meta, data, fs, task, results, mainPc, run, prev,
          pdfFile, pdfRet, pdfVariant, jar, cookieFile, session, ckPc, scr, spl,
          xl, fp, mh, san, cap, tc, wd, px>>

-----------------------------------------------------------------------------
\* Text helpers (Python str / bytes operations)

Min(a, b) == IF a <= b THEN a ELSE b

\* needle in hay  (Python's substring test on str / bytes)
Contains(hay, needle) ==
    \E i \in 0..(Len(hay) - Len(needle)) :
        SubSeq(hay, i + 1, i + Len(needle)) = needle

\* s.startswith(p)
StartsWith(s, p) == Len(s) >= Len(p) /\ SubSeq(s, 1, Len(p)) = p

\* bytes.lower() / str.lower() on ASCII letters
LowerChar(c) ==
    CASE c = "A" -> "a"
      [] c = "B" -> "b"
      [] c = "C" -> "c"
      [] c = "D" -> "d"
      [] c = "E" -> "e"
      [] c = "F" -> "f"
      [] c = "G" -> "g"
      [] c = "H" -> "h"
      [] c = "I" -> "i"
      [] c = "J" -> "j"
      [] c = "K" -> "k"
      [] c = "L" -> "l"
      [] c = "M" -> "m"
      [] c = "N" -> "n"
      [] c = "O" -> "o"
      [] c = "P" -> "p"
      [] c = "Q" -> "q"
      [] c = "R" -> "r"
      [] c = "S" -> "s"
      [] c = "T" -> "t"
      [] c = "U" -> "u"
      [] c = "V" -> "v"
      [] c = "W" -> "w"
      [] c = "X" -> "x"
      [] c = "Y" -> "y"
      [] c = "Z" -> "z"
      [] OTHER -> c

Lower(s) == [i \in 1..Len(s) |-> LowerChar(s[i])]

\* str.strip(): drop leading and trailing blanks
RECURSIVE LStrip(_)
LStrip(s) == IF s # <<>> /\ Head(s) = " " THEN LStrip(Tail(s)) ELSE s

RECURSIVE RStrip(_)
RStrip(s) ==
    IF s # <<>> /\ s[Len(s)] = " " THEN RStrip(SubSeq(s, 1, Len(s) - 1)) ELSE s

Strip(s) == RStrip(LStrip(s))

\* n filler bytes
Pad(n) == [i \in 1..n |-> "x"]

-----------------------------------------------------------------------------
\* sanitize / sanitize_filename:  re.sub(r'[\\/*?:"<>|]', "_", text)

ForbiddenCharsNoColon == {"\\", "/", "*", "?", "\"", "<", ">", "|"}

ForbiddenChars == {"\\", "/", "*", "?", ":", "\"", "<", ">", "|"}

sanitize(text) ==
    [i \in 1..Len(text) |-> IF text[i] \in ForbiddenChars THEN "_" ELSE text[i]]

-----------------------------------------------------------------------------
\* Files.  A file is represented by its leading bytes and its length in
\* bytes; size = -1 stands for "no such file".

NoFile == [head |-> <<>>, size |-> -1]

Exists(f) == f.size >= 0

\* the programs below before they are run
NoXl ==
    [pc |-> "idle", dois |-> <<>>, attempt |-> <<>>, status |-> <<>>,
     log |-> <<>>, out |-> {}]

NoFp ==
    [pc |-> "idle", max_attempts |-> 0, attempt |-> 0, success |-> FALSE,
     file |-> "absent", tries |-> <<>>, ret |-> "none"]

NoMh ==
    [pc |-> "idle", run |-> 0, tasks |-> {}, files |-> <<>>, before |-> <<>>,
     at |-> <<>>, launched |-> <<>>]

NoSan == [pc |-> "idle", text |-> <<>>, once |-> <<>>, twice |-> <<>>]

NoCap ==
    [pc |-> "idle", body |-> <<>>, iframes |-> {}, contentFails |-> FALSE,
     queryFails |-> FALSE, html |-> <<>>, ret |-> "none"]

NoTc ==
    [pc |-> "idle", polls |-> 0, answers |-> <<>>, err |-> "none",
     token |-> "none", service |-> "none"]

NoWd ==
    [pc |-> "idle", timeout |-> 0, waited |-> 0, folder |-> {},
     found |-> <<>>, ret |-> "none"]

NoPx ==
    [pc |-> "idle", variant |-> "none", dir |-> <<>>, todo |-> <<>>,
     records |-> <<>>, csv |-> <<>>]

IdleMore ==
    /\ xl = NoXl /\ fp = NoFp /\ mh = NoMh /\ san = NoSan
    /\ cap = NoCap /\ tc = NoTc /\ wd = NoWd /\ px = NoPx

\* split_pdf_folders before it is run
NoSplit ==
    [pc |-> "idle", srcExists |-> FALSE, total |-> 0, per_part |-> 0,
     part |-> 0, count |-> 0, next |-> 0, where |-> <<>>, failed |-> {}]

\* fetch_range_persistent before it is called
NoScrape ==
    [pc |-> "idle", idx |-> 0, start |-> 0, end |-> 0, headful |-> FALSE,
     key |-> FALSE, log |-> <<>>]

\* cookies.json when it does not exist
NoJson == [exists |-> FALSE, kind |-> "none", keys |-> <<>>, items |-> <<>>]

PDF_MAGIC == <<"%", "P", "D", "F">>
HTML_TAG == <<"<", "h", "t", "m", "l">>

\* f.read(n) on a file opened "rb"
ReadHead(f, n) == SubSeq(f.head, 1, Min(n, Len(f.head)))

\* number of bytes check_pdf_valid reads: f.read(100) / f.read(200)
HEAD_BYTES_CURL == 100
HEAD_BYTES_RETRY == 200

HeadBytes(v) == IF v = "retry" THEN HEAD_BYTES_RETRY ELSE HEAD_BYTES_CURL

\* the test of check_pdf_valid:
\*   b"%PDF" in head and b"<html" not in head.lower()
PdfHeadOkNoHtmlTest(head) == Contains(head, PDF_MAGIC)

PdfHeadOkNoLower(head) ==
    Contains(head, PDF_MAGIC) /\ ~Contains(head, HTML_TAG)

PdfHeadOk(head) ==
    Contains(head, PDF_MAGIC) /\ ~Contains(Lower(head), HTML_TAG)

-----------------------------------------------------------------------------
\* The Wiley PDF downloaders: download_one and main

\* n_cpus (a command-line argument; the pool's worker count)
NCpus == 2
\* longest doi column / TXT file the model draws
MaxDois == 2

\* for attempt in range(3)
MAX_ATTEMPTS_MUT == 3 + 1
MAX_ATTEMPTS == 3

\* os.path.getsize(outfile) > 10_000   (curl, retry)
MIN_SIZE_CURL == 10000
\* os.path.getsize(out_path) > 5000    (requests)
MIN_SIZE_REQUESTS == 5000

MinSize(v) == IF v = "requests" THEN MIN_SIZE_REQUESTS ELSE MIN_SIZE_CURL

Variants == {"requests", "curl", "retry"}

TenDot == <<"1", "0", ".">>
PdfExt == <<".", "p", "d", "f">>
HtmlExt == <<".", "h", "t", "m", "l">>
FailPrefix == <<"f", "a", "i", "l", "_">>

\* The values the doi column / the TXT lines are drawn from.
DoiA == <<"1", "0", ".", "1", "/", "a">>
DoiB == <<"1", "0", ".", "1", ":", "a">>
DoiC == <<"1", "0", ".", "1", "/", "c", " ">>
DoiX == <<"9", ".", "1", "/", "a">>

RawDois == {DoiA, DoiB, DoiC, DoiX}

\* outfile = os.path.join(outdir, f"{sanitize(doi)}.pdf")            (curl, retry)
\* out_path = os.path.join(outdir, sanitize_filename(f"{doi}.pdf"))  (requests)
\* Paths are given relative to outdir.
OutFile(v, doi) ==
    IF v = "requests" THEN sanitize(doi \o PdfExt) ELSE sanitize(doi) \o PdfExt

\* fail_path = os.path.join(outdir, f"fail_{safe_name}.html")        (requests)
FailFile(doi) == FailPrefix \o sanitize(doi \o PdfExt) \o HtmlExt

Paths ==
    UNION {{OutFile("curl", Strip(d)), OutFile("requests", Strip(d)),
            FailFile(Strip(d))} : d \in RawDois}

\* What the server may send back for a PDF URL.
PdfBig == [head |-> PDF_MAGIC \o <<"-">>, size |-> 20000]
PdfSmall == [head |-> PDF_MAGIC \o <<"-">>, size |-> 3000]
HtmlBig == [head |-> <<"<", "H", "T", "M", "L", ">">>, size |-> 20000]
\* an HTML page whose first bytes also hold the text %PDF
HtmlPdf == [head |-> <<"<", "H", "T", "M", "L", ">", "%", "P", "D", "F">>,
            size |-> 20000]

Bodies == {PdfBig, PdfSmall, HtmlPdf}

CT_PDF == <<"a", "p", "p", "/", "p", "d", "f">>
CT_HTML == <<"t", "e", "x", "t", "/", "h", "t", "m", "l">>

HttpResponses ==
    {[code |-> 200, ctype |-> CT_PDF, body |-> PdfBig],
     [code |-> 200, ctype |-> CT_PDF, body |-> PdfSmall],
     [code |-> 200, ctype |-> CT_PDF, body |-> HtmlBig],
     [code |-> 403, ctype |-> CT_HTML, body |-> HtmlBig]}

\* r.status_code == 200 and "pdf" in ctype      (ctype already lower-cased)
Accepted(r) == r.code = 200 /\ Contains(Lower(r.ctype), <<"p", "d", "f">>)

\* dois = [str(d).strip() for d in df["doi"].dropna() if d.startswith("10.")]
KeepCsv(d) == StartsWith(d, TenDot)
\* dois = [line.strip() for line in f if line.strip().startswith("10.")]
KeepTxt(line) == StartsWith(Strip(line), TenDot)

FilterDoisAll(v, col) == [i \in 1..Len(col) |-> Strip(col[i])]

FilterDois(v, col) ==
    LET kept == IF v = "retry" THEN SelectSeq(col, KeepTxt)
                ELSE SelectSeq(col, KeepCsv)
    IN  [i \in 1..Len(kept) |-> Strip(kept[i])]

\* download_one's local state at its start
NewTask ==
    [pc |-> "queued", attempt |-> 0, status |-> "none", fetches |-> 0,
     got |-> NoFile, code |-> 0, ctype |-> <<>>, touched |-> {}]

NoPrev == [status |-> <<>>, fs |-> [p \in Paths |-> NoFile]]

Out(i) == OutFile(variant, data[i].doi)
Fail(i) == FailFile(data[i].doi)

Row(i, st) == [idx |-> data[i].idx, doi |-> data[i].doi, status |-> st]

Running == {i \in DOMAIN task : task[i].pc \notin {"queued", "done", "raised"}}

FetchPc == IF variant = "requests" THEN "get" ELSE "curl"

\* A task's step leaves main and its results alone.
Continue == results' = results /\ mainPc' = mainPc

\* return {..., "status": st}.  The pool hands results to main in the order
\* the workers complete them and main's loop body only appends, so the row
\* joins results at the moment the worker returns.
Return(i, st, t) ==
    /\ task' = [task EXCEPT ![i] = [t EXCEPT !.pc = "done", !.status = st]]
    /\ results' = Append(results, Row(i, st))
    /\ mainPc' = mainPc

\* An exception leaves download_one: the pool's iterator re-raises it in
\* main, whose loop ends without the results being saved.
Raise(i) ==
    /\ task' = [task EXCEPT ![i].pc = "raised", ![i].status = "raised"]
    /\ results' = results
    /\ mainPc' = "raised"

\* the attempt was rejected: next iteration of the for loop, or the final
\* return of "failed" (requests: result["status"] stays "failed")
Rejected(i, t) ==
    IF t.attempt + 1 >= MAX_ATTEMPTS
    THEN Return(i, "failed", [t EXCEPT !.attempt = t.attempt + 1])
    ELSE /\ task' = [task EXCEPT ![i] =
                        [t EXCEPT !.attempt = t.attempt + 1, !.pc = FetchPc]]
         /\ Continue

\* main, up to the pool: read the input, build data
MainStart ==
    /\ mainPc = "start"
    /\ LET dois == FilterDois(variant, meta)
       IN  /\ data' = [i \in 1..Len(dois) |-> [idx |-> i, doi |-> dois[i]]]
           /\ task' = [i \in 1..Len(dois) |-> NewTask]
    /\ mainPc' = "loop"
    /\ UNCHANGED <<variant, meta, fs, results, run, prev, notDL>>

\* A free pool worker takes the next task of data (tasks are handed out in
\* the order of data) and download_one begins: os.path.exists(outfile).
Start(i) ==
    /\ mainPc = "loop"
    /\ task[i].pc = "queued"
    /\ \A j \in 1..(i - 1) : task[j].pc # "queued"
    /\ Cardinality(Running) < NCpus
    /\ task' = [task EXCEPT ![i].touched = @ \cup {Out(i)},
                            ![i].pc = IF Exists(fs[Out(i)]) THEN "getsize"
                                      ELSE FetchPc]
    /\ UNCHANGED <<variant, meta, data, fs, results, mainPc, run, prev, notDL>>

\* os.path.getsize(outfile) > threshold; raises when the file is gone
GetSize(i) ==
    /\ mainPc = "loop"
    /\ task[i].pc = "getsize"
    /\ IF ~Exists(fs[Out(i)])
       THEN Raise(i)
       ELSE IF fs[Out(i)].size > MinSize(variant)
            THEN IF variant = "requests"
                 THEN Return(i, "exists", task[i])
                 ELSE /\ task' = [task EXCEPT ![i].pc = "precheck"]
                      /\ Continue
            ELSE /\ task' = [task EXCEPT ![i].pc = FetchPc]
                 /\ Continue
    /\ UNCHANGED <<variant, meta, data, fs, run, prev, notDL>>

\* check_pdf_valid, first half: open the file and read its head.
\* A missing file raises inside the try: the function returns False.
OpenRead(i) ==
    /\ mainPc = "loop"
    /\ task[i].pc \in {"precheck", "check"}
    /\ LET f == fs[Out(i)]
           t == [task[i] EXCEPT !.touched = @ \cup {Out(i)}]
       IN  IF ~Exists(f)
           THEN IF t.pc = "precheck"
                THEN /\ task' = [task EXCEPT ![i] = [t EXCEPT !.pc = FetchPc]]
                     /\ Continue
                ELSE Rejected(i, t)
           ELSE IF PdfHeadOk(ReadHead(f, HeadBytes(variant)))
                THEN Return(i, IF t.pc = "precheck" THEN "exists" ELSE "success",
                            [t EXCEPT !.got = f])
                ELSE /\ task' = [task EXCEPT ![i] =
                            [t EXCEPT !.pc = IF t.pc = "precheck" THEN "prerm"
                                             ELSE "rm"]]
                     /\ Continue
    /\ UNCHANGED <<variant, meta, data, fs, run, prev, notDL>>

\* check_pdf_valid, second half: os.remove(filepath); return False.
\* A file already gone raises inside the try: the function returns False.
Remove(i) ==
    /\ mainPc = "loop"
    /\ task[i].pc \in {"prerm", "rm"}
    /\ fs' = [fs EXCEPT ![Out(i)] = NoFile]
    /\ IF task[i].pc = "prerm"
       THEN /\ task' = [task EXCEPT ![i].pc = FetchPc]
            /\ Continue
       ELSE Rejected(i, task[i])
    /\ UNCHANGED <<variant, meta, data, run, prev, notDL>>

\* run_curl(cmd): curl -o outfile writes whatever body the server sent, or
\* writes nothing when the transfer fails; the return code is ignored.
RunCurl(i) ==
    /\ mainPc = "loop"
    /\ variant # "requests"
    /\ task[i].pc = "curl"
    /\ \/ \E b \in Bodies : fs' = [fs EXCEPT ![Out(i)] = b]
       \/ fs' = fs
    /\ task' = [task EXCEPT ![i].pc = "check", ![i].fetches = @ + 1,
                            ![i].touched = @ \cup {Out(i)}]
    /\ UNCHANGED <<variant, meta, data, results, mainPc, run, prev, notDL>>

\* One iteration of the requests loop: s.get, then either the PDF branch
\* (write out_path, status success, break) or the retry branch (write
\* fail_path, sleep).
HttpGet(i) ==
    /\ mainPc = "loop"
    /\ variant = "requests"
    /\ task[i].pc = "get"
    /\ \E r \in HttpResponses :
        LET t == [task[i] EXCEPT !.fetches = @ + 1] IN
        IF Accepted(r)
        THEN /\ fs' = [fs EXCEPT ![Out(i)] = r.body]
             /\ Return(i, "success",
                       [t EXCEPT !.got = r.body, !.code = r.code,
                                 !.ctype = r.ctype,
                                 !.touched = @ \cup {Out(i)}])
        ELSE /\ fs' = [fs EXCEPT ![Fail(i)] = r.body]
             /\ Rejected(i, [t EXCEPT !.touched = @ \cup {Fail(i)}])
    /\ UNCHANGED <<variant, meta, data, run, prev, notDL>>

\* s.get raises (timeout, connection error): except Exception logs it and
\* the function returns the result, still "failed".
HttpError(i) ==
    /\ mainPc = "loop"
    /\ variant = "requests"
    /\ task[i].pc = "get"
    /\ Return(i, "failed", [task[i] EXCEPT !.fetches = @ + 1])
    /\ UNCHANGED <<variant, meta, data, fs, run, prev, notDL>>

\* for res in pool.imap_unordered(...) has yielded len(data) results:
\* pd.DataFrame(results).to_csv(...)
MainSave ==
    /\ mainPc = "loop"
    /\ Len(results) = Len(data)
    /\ mainPc' = "saved"
    /\ UNCHANGED <<variant, meta, data, fs, task, results, run, prev, notDL>>

IdleOthers ==
    /\ pdfFile = [given |-> NoFile, now |-> NoFile, readable |-> TRUE]
    /\ pdfRet = "none" /\ pdfVariant = "curl"
    /\ jar = <<>> /\ cookieFile = NoJson /\ session = {} /\ ckPc = "browse"
    /\ scr = NoScrape /\ spl = NoSplit
    /\ IdleMore

\* the programs of the first groups of variables are not running
IdleOld ==
    /\ variant = "requests" /\ meta = <<>> /\ data = <<>>
    /\ fs = [p \in Paths |-> NoFile]
    /\ task = <<>> /\ results = <<>>
    /\ mainPc = "start" /\ run = 1 /\ prev = NoPrev
    /\ pdfFile = [given |-> NoFile, now |-> NoFile, readable |-> TRUE]
    /\ pdfRet = "none" /\ pdfVariant = "curl"
    /\ jar = <<>> /\ cookieFile = NoJson /\ session = {} /\ ckPc = "browse"
    /\ scr = NoScrape /\ spl = NoSplit

\* The inputs main reads.  The doi column is the output of step 02, which
\* drops duplicate DOIs, and the TXT file is written from a set of DOIs:
\* no value occurs twice.
Inputs(maxLen) ==
    {m \in UNION {[1..n -> RawDois] : n \in 1..maxLen} :
        \A j, k \in DOMAIN m : j # k => m[j] # m[k]}

InitDL ==
    /\ variant \in Variants
    /\ meta \in Inputs(MaxDois)
    /\ data = <<>>
    /\ fs = [p \in Paths |-> NoFile]
    /\ task = <<>>
   
    /\ results = <<>>
    /\ mainPc = "start"
    /\ run = 1
    /\ prev = NoPrev
    /\ IdleOthers

NextDL ==
    \/ MainStart
    \/ \E i \in DOMAIN task : Start(i)
    \/ \E i \in DOMAIN task : GetSize(i)
    \/ \E i \in DOMAIN task : OpenRead(i)
    \/ \E i \in DOMAIN task : Remove(i)
    \/ \E i \in DOMAIN task : RunCurl(i)
    \/ \E i \in DOMAIN task : HttpGet(i)
    \/ \E i \in DOMAIN task : HttpError(i)
    \/ MainSave

SpecDL == InitDL /\ [][NextDL]_vars

\* download_one called again, with the same arguments, on the directory the
\* previous call left (main run a second time on the same input).
MaxRuns == 2

CallAgain ==
    /\ mainPc = "saved"
    /\ run < MaxRuns
    /\ prev' = [status |-> [i \in DOMAIN task |-> task[i].status], fs |-> fs]
    /\ task' = [i \in DOMAIN task |-> NewTask]
        /\ results' = <<>>
    /\ mainPc' = "loop"
    /\ run' = run + 1
    /\ UNCHANGED <<variant, meta, data, fs, notDL>>

InitIdem ==
    /\ variant \in Variants
    /\ meta \in Inputs(1)
    /\ data = <<>>
    /\ fs = [p \in Paths |-> NoFile]
    /\ task = <<>>
   
    /\ results = <<>>
    /\ mainPc = "start"
    /\ run = 1
    /\ prev = NoPrev
    /\ IdleOthers

NextIdem ==
    \/ NextDL
    \/ CallAgain

SpecIdem == InitIdem /\ [][NextIdem]_vars

-----------------------------------------------------------------------------
\* check_pdf_valid(filepath) as one call (curl-based and retry scripts)

\* offsets at which the model places the interesting bytes of a file
PadSizes == {0, 1, 96, 97, 196, 197}

Contents ==
    {<<"%", "P", "D", "F", "-">>,
     <<"<", "h", "t", "m", "l", ">">>,
     <<"<", "H", "T", "M", "L", ">", "%", "P", "D", "F">>,
     <<"%", "P", "D", "F", "<", "h", "T", "m", "L">>,
     <<"<", "!", "d", "o", "c", ">", "%", "P", "D", "F">>,
     <<"o", "o", "p", "s">>}

PdfFiles ==
    {NoFile} \cup
    {[head |-> Pad(n) \o c, size |-> n + Len(c)] : n \in PadSizes, c \in Contents}

InitPdf ==
    /\ pdfVariant \in {"curl", "retry"}
    /\ \E f \in PdfFiles, r \in BOOLEAN :
          pdfFile = [given |-> f, now |-> f, readable |-> r]
    /\ pdfRet = "none"
    /\ variant = "curl" /\ meta = <<>> /\ data = <<>>
    /\ fs = [p \in Paths |-> NoFile]
    /\ task = <<>> /\ results = <<>>
    /\ mainPc = "start" /\ run = 1 /\ prev = NoPrev
    /\ jar = <<>> /\ cookieFile = NoJson /\ session = {} /\ ckPc = "browse"
    /\ scr = NoScrape /\ spl = NoSplit
    /\ IdleMore

\* try: open, read the head; valid -> True; otherwise os.remove and False;
\* except Exception (no such file, not readable): False
CheckPdfValid ==
    /\ pdfRet = "none"
    /\ IF ~Exists(pdfFile.now) \/ ~pdfFile.readable
       THEN pdfRet' = "False" /\ pdfFile' = pdfFile
       ELSE IF PdfHeadOk(ReadHead(pdfFile.now, HeadBytes(pdfVariant)))
            THEN pdfRet' = "True" /\ pdfFile' = pdfFile
            ELSE pdfRet' = "False" /\ pdfFile' = [pdfFile EXCEPT !.now = NoFile]
    /\ UNCHANGED <<pdfVariant, dlVars, ckVars, scr, spl, moreVars>>

NextPdf ==
    \/ CheckPdfValid

SpecPdf == InitPdf /\ [][NextPdf]_vars

-----------------------------------------------------------------------------
\* cookies.json: written by save_profile_state (step-01 scraper), read by
\* load_cookies (requests-based downloader).
\*
\* A JSON document is a list or an object.  Iterating a Python list yields
\* its elements, iterating a dict yields its keys (strings); `k in c` is a
\* key test on a dict and a substring test on a string.

\* most cookies the browser context holds
MaxCookies == 2

K_NAME == <<"n", "a", "m", "e">>
K_VALUE == <<"v", "a", "l", "u", "e">>
K_DOMAIN == <<"d", "o", "m", "a", "i", "n">>
K_COOKIES == <<"c", "o", "o", "k", "i", "e", "s">>
K_ORIGINS == <<"o", "r", "i", "g", "i", "n", "s">>

CookieNames == {"cf_clearance", "JSESSIONID"}
CookieValues == {"v1", "v2"}
Cookies == [name : CookieNames, value : CookieValues]

\* a JSON object holding one cookie, as Playwright writes it
DictItem(c) ==
    [kind |-> "dict", keys |-> {K_NAME, K_VALUE, K_DOMAIN}, text |-> <<>>,
     name |-> c.name, value |-> c.value]

\* a string met while iterating
StrItem(t) ==
    [kind |-> "str", keys |-> {}, text |-> t, name |-> "", value |-> ""]

\* a JSON list of cookie objects
CookieList(cs) ==
    [exists |-> TRUE, kind |-> "list", keys |-> <<>>,
     items |-> [i \in 1..Len(cs) |-> DictItem(cs[i])]]

\* context.storage_state(path=...): {"cookies": [...], "origins": [...]}
StorageState(cs) ==
    [exists |-> TRUE, kind |-> "dict", keys |-> <<K_COOKIES, K_ORIGINS>>,
     items |-> [i \in 1..Len(cs) |-> DictItem(cs[i])]]

\* for c in cookies_raw
Iterate(raw) ==
    IF raw.kind = "list" THEN raw.items
    ELSE [i \in 1..Len(raw.keys) |-> StrItem(raw.keys[i])]

\* k in c
HasKey(c, k) == IF c.kind = "dict" THEN k \in c.keys ELSE Contains(c.text, k)

\* if "name" in c and "value" in c
Qualifies(c) == HasKey(c, K_NAME) /\ HasKey(c, K_VALUE)

\* {c["name"]: c["value"] for c in cookies_raw if ...}: a later entry with
\* the same name replaces an earlier one
DictComprehension(q) ==
    {[name |-> q[i].name, value |-> q[i].value] :
        i \in {i \in DOMAIN q : \A j \in DOMAIN q : j > i => q[j].name # q[i].name}}

\* the browser context receives or replaces a cookie
SetCookie(c) ==
    /\ ckPc = "browse"
    /\ LET others == SelectSeq(jar, LAMBDA d : d.name # c.name)
       IN  /\ Len(others) < MaxCookies
           /\ jar' = Append(others, c)
    /\ UNCHANGED <<cookieFile, session, ckPc, dlVars, pdfVars, scr, spl, moreVars>>

\* save_profile_state(context, cookies_path)
SaveProfileState ==
    /\ ckPc = "browse"
    /\ \/ cookieFile' = StorageState(jar)
       \/ cookieFile' = cookieFile      \* except Exception: warning only
    /\ UNCHANGED <<jar, session, ckPc, dlVars, pdfVars, scr, spl, moreVars>>

\* cookies = load_cookies(args.cookies) in main; download_one attaches the
\* mapping to every session (s.cookies.update(cookies)).
LoadCookies ==
    /\ ckPc = "browse"
    /\ IF ~cookieFile.exists
       THEN session' = {} /\ ckPc' = "loaded"
       ELSE LET q == SelectSeq(Iterate(cookieFile), Qualifies)
            IN  IF \E i \in DOMAIN q : q[i].kind = "str"
                THEN session' = session /\ ckPc' = "raised"   \* c["name"] on a str
                ELSE session' = DictComprehension(q) /\ ckPc' = "loaded"
    /\ UNCHANGED <<jar, cookieFile, dlVars, pdfVars, scr, spl, moreVars>>

\* cookies.json before the scraper runs: absent, or a list of cookie objects
\* exported by other means
InitCookies ==
    /\ jar = <<>>
    /\ cookieFile \in {NoJson} \cup {CookieList(<<c>>) : c \in Cookies}
    /\ session = {}
    /\ ckPc = "browse"
    /\ variant = "requests" /\ meta = <<>> /\ data = <<>>
    /\ fs = [p \in Paths |-> NoFile]
    /\ task = <<>> /\ results = <<>>
    /\ mainPc = "start" /\ run = 1 /\ prev = NoPrev
    /\ pdfFile = [given |-> NoFile, now |-> NoFile, readable |-> TRUE]
    /\ pdfRet = "none" /\ pdfVariant = "curl"
    /\ scr = NoScrape /\ spl = NoSplit
    /\ IdleMore

NextCookies ==
    \/ \E c \in Cookies : SetCookie(c)
    \/ SaveProfileState
    \/ LoadCookies

SpecCookies == InitCookies /\ [][NextCookies]_vars

-----------------------------------------------------------------------------
\* fetch_range_persistent (01_collect_html_pages_playwright_persistent.py)
\*
\* scr.log records, in order, what the function did: the navigations, the
\* files it wrote, the calls of save_profile_state and context.close().

\* largest page index the model draws for --start / --end
MaxPage == 2

Ev(ev, k, ok) == [ev |-> ev, k |-> k, ok |-> ok]

\* the for loop moves on: next idx of range(start, end + 1), or the loop ends
Advance(s) ==
    IF s.idx + 1 > s.end
    THEN [s EXCEPT !.pc = "loop_done"]
    ELSE [s EXCEPT !.idx = s.idx + 1, !.pc = "goto"]

\* save_profile_state(context, cookies_path): storage_state may raise, which
\* is logged as a warning and ignored
SavedStateNot(log, k, ok) == log

SavedState(log, k, ok) == Append(log, Ev("save", k, ok))

\* page.goto raises: warning, continue
GotoFails ==
    /\ scr.pc = "goto"
    /\ scr' = Advance([scr EXCEPT !.log = Append(@, Ev("goto_failed", scr.idx, FALSE))])
    /\ UNCHANGED <<dlVars, pdfVars, ckVars, spl, moreVars>>

\* page.goto returns; sleep; human_like (swallows its own errors)
GotoOk ==
    /\ scr.pc = "goto"
    /\ scr' = [scr EXCEPT !.pc = "detect", !.log = Append(@, Ev("goto", scr.idx, TRUE))]
    /\ UNCHANGED <<dlVars, pdfVars, ckVars, spl, moreVars>>

\* detect_captcha(page) is False
NoCaptcha ==
    /\ scr.pc = "detect"
    /\ scr' = [scr EXCEPT !.pc = "extract"]
    /\ UNCHANGED <<dlVars, pdfVars, ckVars, spl, moreVars>>

\* detect_captcha(page) is True, headful: the state is saved and the code
\* goes on to the extraction
CaptchaHeadful ==
    /\ scr.pc = "detect"
    /\ scr.headful
    /\ \E ok \in BOOLEAN :
          scr' = [scr EXCEPT !.pc = "extract",
                     !.log = SavedState(Append(@, Ev("captcha", scr.idx, TRUE)),
                                        scr.idx, ok)]
    /\ UNCHANGED <<dlVars, pdfVars, ckVars, spl, moreVars>>

\* detect_captcha(page) is True, headless with a 2Captcha key: the solve is
\* attempted inside try/except, then the code goes on to the extraction
CaptchaTwoCaptcha ==
    /\ scr.pc = "detect"
    /\ ~scr.headful /\ scr.key
    /\ \E ok \in BOOLEAN :
          scr' = [scr EXCEPT !.pc = "extract",
                     !.log = Append(Append(@, Ev("captcha", scr.idx, TRUE)),
                                    Ev("solve", scr.idx, ok))]
    /\ UNCHANGED <<dlVars, pdfVars, ckVars, spl, moreVars>>

\* detect_captcha(page) is True, headless without key: continue
CaptchaSkip ==
    /\ scr.pc = "detect"
    /\ ~scr.headful /\ ~scr.key
    /\ scr' = Advance([scr EXCEPT !.log = Append(@, Ev("captcha", scr.idx, FALSE))])
    /\ UNCHANGED <<dlVars, pdfVars, ckVars, spl, moreVars>>

\* ul#search-result found: page_XXX.html written, state saved, sleep
ExtractOk ==
    /\ scr.pc = "extract"
    /\ \E ok \in BOOLEAN :
          scr' = Advance([scr EXCEPT !.log =
                     SavedState(Append(@, Ev("write_page", scr.idx, TRUE)),
                                scr.idx, ok)])
    /\ UNCHANGED <<dlVars, pdfVars, ckVars, spl, moreVars>>

\* except PLTimeout: fallback_page_XXX.html written from page.content(),
\* screenshot taken, sleep
ExtractTimeout ==
    /\ scr.pc = "extract"
    /\ scr' = Advance([scr EXCEPT !.log = Append(@, Ev("write_fallback", scr.idx, TRUE))])
    /\ UNCHANGED <<dlVars, pdfVars, ckVars, spl, moreVars>>

\* except Exception: error_page_XXX.html written from page.content(),
\* screenshot taken, sleep
ExtractError ==
    /\ scr.pc = "extract"
    /\ scr' = Advance([scr EXCEPT !.log = Append(@, Ev("write_error", scr.idx, TRUE))])
    /\ UNCHANGED <<dlVars, pdfVars, ckVars, spl, moreVars>>

\* Inside either except block page.content(), open() or page.screenshot()
\* raises (the page crashed or was closed, the screenshot timed out): no
\* handler encloses the except block, so the exception leaves the loop and
\* the function.
HandlerRaises ==
    /\ scr.pc = "extract"
    /\ scr' = [scr EXCEPT !.pc = "aborted",
                          !.log = Append(@, Ev("handler_raised", scr.idx, FALSE))]
    /\ UNCHANGED <<dlVars, pdfVars, ckVars, spl, moreVars>>

\* after the loop: save_profile_state(context, cookies_path)
FinalSave ==
    /\ scr.pc = "loop_done"
    /\ \E ok \in BOOLEAN :
          scr' = [scr EXCEPT !.pc = "close",
                             !.log = SavedState(@, scr.end + 1, ok)]
    /\ UNCHANGED <<dlVars, pdfVars, ckVars, spl, moreVars>>

\* context.close()
Close ==
    /\ scr.pc = "close"
    /\ scr' = [scr EXCEPT !.pc = "closed", !.log = Append(@, Ev("close", scr.end + 1, TRUE))]
    /\ UNCHANGED <<dlVars, pdfVars, ckVars, spl, moreVars>>

\* the call: range(start, end + 1) is empty when start > end
InitScrape ==
    /\ \E a, b \in 0..MaxPage, h, k \in BOOLEAN :
          scr = [pc |-> IF a > b THEN "loop_done" ELSE "goto", idx |-> a,
                 start |-> a, end |-> b, headful |-> h, key |-> k, log |-> <<>>]
    /\ variant = "requests" /\ meta = <<>> /\ data = <<>>
    /\ fs = [p \in Paths |-> NoFile]
    /\ task = <<>> /\ results = <<>>
    /\ mainPc = "start" /\ run = 1 /\ prev = NoPrev
    /\ pdfFile = [given |-> NoFile, now |-> NoFile, readable |-> TRUE]
    /\ pdfRet = "none" /\ pdfVariant = "curl"
    /\ jar = <<>> /\ cookieFile = NoJson /\ session = {} /\ ckPc = "browse"
    /\ spl = NoSplit
    /\ IdleMore

NextScrape ==
    \/ GotoFails
    \/ GotoOk
    \/ NoCaptcha
    \/ CaptchaHeadful
    \/ CaptchaTwoCaptcha
    \/ CaptchaSkip
    \/ ExtractOk
    \/ ExtractTimeout
    \/ ExtractError
    \/ HandlerRaises
    \/ FinalSave
    \/ Close

SpecScrape == InitScrape /\ [][NextScrape]_vars

-----------------------------------------------------------------------------
\* split_pdf_folders (MDPI/split_pdf_folders.py)
\*
\* The sorted list pdf_files is 1..total; spl.where[f] is the place of file
\* f: 0 for mdpi_pdfs, k for PDF_k.

NUM_PARTS == 10

\* largest number of .pdf files the model puts into mdpi_pdfs
MaxTotal == 11

Folders == 1..NUM_PARTS

\* math.ceil(total / NUM_PARTS)
PerPart(total) == (total + NUM_PARTS - 1) \div NUM_PARTS

\* number of files in folder PDF_k
FolderCount(k) == Cardinality({f \in DOMAIN spl.where : spl.where[f] = k})

\* mdpi_pdfs does not exist: SystemExit(1)
ExitNoDir ==
    /\ spl.pc = "start"
    /\ ~spl.srcExists
    /\ spl' = [spl EXCEPT !.pc = "exit1"]
    /\ UNCHANGED <<dlVars, pdfVars, ckVars, scr, moreVars>>

\* no .pdf file listed: SystemExit(1)
ExitNoPdf ==
    /\ spl.pc = "start"
    /\ spl.srcExists /\ spl.total = 0
    /\ spl' = [spl EXCEPT !.pc = "exit1"]
    /\ UNCHANGED <<dlVars, pdfVars, ckVars, scr, moreVars>>

\* per_part computed, the ten folders created, part = 1, count = 0
Prepare ==
    /\ spl.pc = "start"
    /\ spl.srcExists /\ spl.total > 0
    /\ spl' = [spl EXCEPT !.pc = "moving", !.per_part = PerPart(spl.total),
                          !.part = 1, !.count = 0, !.next = 1]
    /\ UNCHANGED <<dlVars, pdfVars, ckVars, scr, moreVars>>

\* count += 1; if count >= per_part and part < NUM_PARTS: part += 1; count = 0
Counted(s) ==
    LET c == s.count + 1
        n == [s EXCEPT !.next = s.next + 1]
    IN  IF c >= s.per_part /\ s.part < NUM_PARTS
        THEN [n EXCEPT !.part = s.part + 1, !.count = 0]
        ELSE [n EXCEPT !.count = c]

\* one iteration, shutil.move succeeds
MoveOk ==
    /\ spl.pc = "moving"
    /\ spl.next <= spl.total
    /\ spl' = Counted([spl EXCEPT !.where[spl.next] = spl.part])
    /\ UNCHANGED <<dlVars, pdfVars, ckVars, scr, moreVars>>

\* one iteration, shutil.move raises: logged, the file stays where it was
MoveFails ==
    /\ spl.pc = "moving"
    /\ spl.next <= spl.total
    /\ spl' = Counted([spl EXCEPT !.failed = @ \cup {spl.next}])
    /\ UNCHANGED <<dlVars, pdfVars, ckVars, scr, moreVars>>

\* the list is exhausted: completion is logged and printed
Finish ==
    /\ spl.pc = "moving"
    /\ spl.next > spl.total
    /\ spl' = [spl EXCEPT !.pc = "done"]
    /\ UNCHANGED <<dlVars, pdfVars, ckVars, scr, moreVars>>

InitSplit ==
    /\ \E e \in BOOLEAN, n \in 0..MaxTotal :
          spl = [pc |-> "start", srcExists |-> e,
                 total |-> IF e THEN n ELSE 0, per_part |-> 0,
                 part |-> 0, count |-> 0, next |-> 0,
                 where |-> [f \in 1..(IF e THEN n ELSE 0) |-> 0], failed |-> {}]
    /\ variant = "requests" /\ meta = <<>> /\ data = <<>>
    /\ fs = [p \in Paths |-> NoFile]
    /\ task = <<>> /\ results = <<>>
    /\ mainPc = "start" /\ run = 1 /\ prev = NoPrev
    /\ pdfFile = [given |-> NoFile, now |-> NoFile, readable |-> TRUE]
    /\ pdfRet = "none" /\ pdfVariant = "curl"
    /\ jar = <<>> /\ cookieFile = NoJson /\ session = {} /\ ckPc = "browse"
    /\ scr = NoScrape
    /\ IdleMore

NextSplit ==
    \/ ExitNoDir
    \/ ExitNoPdf
    \/ Prepare
    \/ MoveOk
    \/ MoveFails
    \/ Finish

SpecSplit == InitSplit /\ [][NextSplit]_vars

-----------------------------------------------------------------------------
\* extract_failed_dois_from_log.py applied to wiley_curl_final.log, the log
\* of the curl-based downloader.
\*
\* A log line is "asctime | levelname | message"; the model keeps the level
\* name and the message (without the leading pictograph and the arrow) and
\* leaves out the time stamp.

\* most DOIs of the logged run
MaxLogDois == 2

Digits == <<"1", "2", "3", "4", "5">>

WILEY_PREFIX == <<"1", "0", ".", "1", "0", "0", "2", "/">>

DoiLetters == <<"a", "b", "c", "d">>

\* the k-th DOI of the logged run
LogDoi(k) == WILEY_PREFIX \o <<DoiLetters[k]>>

\* logging.warning(f"[{idx}] {doi} invalid/403 (attempt {attempt+1}/3)")
WarningLine(idx, doi, n) ==
    <<"W", "A", "R", "N", "I", "N", "G", " ", "|", " ", "[">> \o <<Digits[idx]>> \o <<"]", " ">> \o doi
        \o <<" ", "i", "n", "v", "a", "l", "i", "d", "/", "4", "0", "3", " ", "(", "a", "t", "t", "e", "m", "p", "t", " ">> \o <<Digits[n]>> \o <<"/", "3", ")">>

\* logging.info(f"[{idx}] OK {outfile}")
OkLine(idx, doi) ==
    <<"I", "N", "F", "O", " ", "|", " ", "[">> \o <<Digits[idx]>> \o <<"]", " ", "O", "K", " ">>
        \o <<"w", "i", "l", "e", "y", "_", "p", "d", "f", "s", "/">> \o sanitize(doi) \o PdfExt

\* one more attempt of download_one(idx) is invalid
LogInvalid(i) ==
    /\ xl.pc = "run"
    /\ xl.status[i] = "pending"
    /\ LET n == xl.attempt[i] + 1
       IN  xl' = [xl EXCEPT
                    !.attempt[i] = n,
                    !.log = Append(@, WarningLine(i, xl.dois[i], n)),
                    !.status[i] = IF n = MAX_ATTEMPTS THEN "failed" ELSE "pending"]
    /\ UNCHANGED <<oldVars, fp, mh, san, cap, tc, wd, px>>

\* the attempt of download_one(idx) is valid
LogValid(i) ==
    /\ xl.pc = "run"
    /\ xl.status[i] = "pending"
    /\ xl' = [xl EXCEPT !.attempt[i] = @ + 1,
                        !.log = Append(@, OkLine(i, xl.dois[i])),
                        !.status[i] = "success"]
    /\ UNCHANGED <<oldVars, fp, mh, san, cap, tc, wd, px>>

\* download_one(idx) finds the file on disk: exists, nothing is logged
LogExists(i) ==
    /\ xl.pc = "run"
    /\ xl.status[i] = "pending" /\ xl.attempt[i] = 0
    /\ xl' = [xl EXCEPT !.status[i] = "exists"]
    /\ UNCHANGED <<oldVars, fp, mh, san, cap, tc, wd, px>>

FAILED_KEYWORDS ==
    {<<"i", "n", "v", "a", "l", "i", "d">>,
     <<"4", "0", "3">>,
     <<"f", "a", "i", "l">>,
     <<"e", "r", "r", "o", "r">>,
     <<"d", "e", "n", "i", "e", "d">>}

\* any(k in line.lower() for k in failed_keywords)
HasFailedKeyword(line) == \E k \in FAILED_KEYWORDS : Contains(Lower(line), k)

\* \s
IsSpace(c) == c \in {" ", "\t", "\n"}

\* positions where (10\.1002/[^\s]+) matches
MatchStarts(line) ==
    {p \in 1..Len(line) :
        /\ StartsWith(SubSeq(line, p, Len(line)), WILEY_PREFIX)
        /\ p + Len(WILEY_PREFIX) <= Len(line)
        /\ ~IsSpace(line[p + Len(WILEY_PREFIX)])}

\* pattern.search(line).group(1): the leftmost match, as long as possible
Search(line) ==
    LET p == CHOOSE q \in MatchStarts(line) : \A r \in MatchStarts(line) : q <= r
        e == CHOOSE q \in p..Len(line) :
                 /\ \A r \in p..q : ~IsSpace(line[r])
                 /\ q = Len(line) \/ IsSpace(line[q + 1])
    IN  SubSeq(line, p, e)

\* main of extract_failed_dois_from_log: the set dois
FailedDois(log) ==
    {Strip(Search(log[j])) :
        j \in {j \in DOMAIN log : HasFailedKeyword(log[j]) /\ MatchStarts(log[j]) # {}}}

ExtractFailedDois ==
    /\ xl.pc = "run"
    /\ \A i \in DOMAIN xl.status : xl.status[i] # "pending"
    /\ xl' = [xl EXCEPT !.pc = "extracted", !.out = FailedDois(xl.log)]
    /\ UNCHANGED <<oldVars, fp, mh, san, cap, tc, wd, px>>

InitExtract ==
    /\ \E n \in 1..MaxLogDois :
          xl = [pc |-> "run", dois |-> [k \in 1..n |-> LogDoi(k)],
                attempt |-> [k \in 1..n |-> 0],
                status |-> [k \in 1..n |-> "pending"],
                log |-> <<>>, out |-> {}]
    /\ IdleOld
    /\ px = NoPx
    /\ fp = NoFp /\ mh = NoMh /\ san = NoSan /\ cap = NoCap /\ tc = NoTc /\ wd = NoWd

NextExtract ==
    \/ \E i \in DOMAIN xl.status : LogInvalid(i)
    \/ \E i \in DOMAIN xl.status : LogValid(i)
    \/ \E i \in DOMAIN xl.status : LogExists(i)
    \/ ExtractFailedDois

SpecExtract == InitExtract /\ [][NextExtract]_vars

-----------------------------------------------------------------------------
\* fetch_page (old.01_collect_html_pages.window.py)
\*
\* fp.tries lists the outcome of every pass through the while loop, each of
\* which calls page.goto once; fp.file is page_XXX.html: "absent", "old"
\* (left by an earlier call), "partial" (opened for writing, write failed)
\* or "page" (written by this call).

\* largest --max-attempts the model draws
MaxAttemptsArg == 3

\* while attempt < max_attempts and not success
FpLooping == fp.attempt < fp.max_attempts /\ ~fp.success

FpTry(outcome) ==
    [fp EXCEPT !.attempt = @ + 1, !.tries = Append(@, outcome)]

\* browser launched, context and page created, stealth applied
FpLaunch ==
    /\ fp.pc = "launch"
    /\ fp' = [fp EXCEPT !.pc = "loop"]
    /\ UNCHANGED <<oldVars, xl, mh, san, cap, tc, wd, px>>

\* p.chromium.launch, browser.new_context or context.new_page raises: the
\* finally block closes what exists and the exception leaves fetch_page
FpLaunchRaises ==
    /\ fp.pc = "launch"
    /\ fp' = [fp EXCEPT !.pc = "raised"]
    /\ UNCHANGED <<oldVars, xl, mh, san, cap, tc, wd, px>>

\* goto, wait_for_selector, inner_html and the write succeed; success = True
FpSaved ==
    /\ fp.pc = "loop" /\ FpLooping
    /\ fp' = [FpTry("saved") EXCEPT !.file = "page", !.success = TRUE]
    /\ UNCHANGED <<oldVars, xl, mh, san, cap, tc, wd, px>>

\* except PLTimeout: screenshot and reload, both guarded
FpTimeout ==
    /\ fp.pc = "loop" /\ FpLooping
    /\ fp' = FpTry("timeout")
    /\ UNCHANGED <<oldVars, xl, mh, san, cap, tc, wd, px>>

\* except PLBaseError: screenshot and reload, both guarded
FpPlaywrightError ==
    /\ fp.pc = "loop" /\ FpLooping
    /\ fp' = FpTry("playwright_error")
    /\ UNCHANGED <<oldVars, xl, mh, san, cap, tc, wd, px>>

\* except Exception, raised before the file is opened
FpUnexpected ==
    /\ fp.pc = "loop" /\ FpLooping
    /\ fp' = FpTry("unexpected")
    /\ UNCHANGED <<oldVars, xl, mh, san, cap, tc, wd, px>>

\* except Exception, raised by f.write after open(outpath, "w") has
\* truncated the file
FpWriteFails ==
    /\ fp.pc = "loop" /\ FpLooping
    /\ fp' = [FpTry("write_failed") EXCEPT !.file = "partial"]
    /\ UNCHANGED <<oldVars, xl, mh, san, cap, tc, wd, px>>

\* the loop has ended: finally, return success
FpReturn ==
    /\ fp.pc = "loop" /\ ~FpLooping
    /\ fp' = [fp EXCEPT !.pc = "returned",
                        !.ret = IF fp.success THEN "True" ELSE "False"]
    /\ UNCHANGED <<oldVars, xl, mh, san, cap, tc, wd, px>>

InitFetchPage ==
    /\ \E m \in 0..MaxAttemptsArg, f \in {"absent", "old"} :
          fp = [pc |-> "launch", max_attempts |-> m, attempt |-> 0,
                success |-> FALSE, file |-> f, tries |-> <<>>, ret |-> "none"]
    /\ IdleOld
    /\ px = NoPx
    /\ xl = NoXl /\ mh = NoMh /\ san = NoSan /\ cap = NoCap /\ tc = NoTc /\ wd = NoWd

NextFetchPage ==
    \/ FpLaunch
    \/ FpLaunchRaises
    \/ FpSaved
    \/ FpTimeout
    \/ FpPlaywrightError
    \/ FpUnexpected
    \/ FpWriteFails
    \/ FpReturn

SpecFetchPage == InitFetchPage /\ [][NextFetchPage]_vars

-----------------------------------------------------------------------------
\* MDPI HTML fetcher (MDPI/01_download_htmls.py)
\*
\* mh.files[t] is the file vol{V}_iss{I}.html of task t = <<V, I>>: its kind
\* ("absent", "page", or "partial" when the write failed after the file was
\* opened) and the run that wrote it; mh.before is the directory as the
\* current run found it; mh.launched[t] counts the browsers the current run
\* launched for t.

\* largest volume and issue number the model draws
MaxVol == 2
MaxIssue == 1

AllTasks == (1..MaxVol) \X (1..MaxIssue)

AbsentHtml == [kind |-> "absent", run |-> 0]

\* os.path.exists(html_path)
HtmlExistsNever(t) == FALSE

HtmlExists(t) == mh.files[t].kind # "absent"

\* fetch_and_save(vol, iss) starts in a worker: skip when the file exists,
\* otherwise launch the browser
MhStart(t) ==
    /\ mh.pc = "pool" /\ t \in mh.tasks
    /\ mh.at[t] = "queued"
    /\ IF HtmlExists(t)
       THEN mh' = [mh EXCEPT !.at[t] = "skipped"]
       ELSE mh' = [mh EXCEPT !.at[t] = "browser", !.launched[t] = @ + 1]
    /\ UNCHANGED <<oldVars, xl, fp, san, cap, tc, wd, px>>

\* the page is fetched and written
MhSave(t) ==
    /\ mh.pc = "pool" /\ t \in mh.tasks
    /\ mh.at[t] = "browser"
    /\ mh' = [mh EXCEPT !.at[t] = "saved",
                        !.files[t] = [kind |-> "page", run |-> mh.run]]
    /\ UNCHANGED <<oldVars, xl, fp, san, cap, tc, wd, px>>

\* launch, goto, wait, evaluate or content raises: warning, nothing written
MhFail(t) ==
    /\ mh.pc = "pool" /\ t \in mh.tasks
    /\ mh.at[t] = "browser"
    /\ mh' = [mh EXCEPT !.at[t] = "failed"]
    /\ UNCHANGED <<oldVars, xl, fp, san, cap, tc, wd, px>>

\* f.write raises after open(html_path, "w"): warning, a partial file stays
MhWriteFails(t) ==
    /\ mh.pc = "pool" /\ t \in mh.tasks
    /\ mh.at[t] = "browser"
    /\ mh' = [mh EXCEPT !.at[t] = "failed",
                        !.files[t] = [kind |-> "partial", run |-> mh.run]]
    /\ UNCHANGED <<oldVars, xl, fp, san, cap, tc, wd, px>>

\* the pool's iterator is exhausted: main logs the end
MhDone ==
    /\ mh.pc = "pool"
    /\ \A t \in mh.tasks : mh.at[t] \in {"skipped", "saved", "failed"}
    /\ mh' = [mh EXCEPT !.pc = "done"]
    /\ UNCHANGED <<oldVars, xl, fp, san, cap, tc, wd, px>>

\* the script is run again with the same arguments on the same directory
MhRunAgain ==
    /\ mh.pc = "done" /\ mh.run = 1
    /\ mh' = [mh EXCEPT !.pc = "pool", !.run = @ + 1, !.before = mh.files,
                        !.at = [t \in AllTasks |-> "queued"],
                        !.launched = [t \in AllTasks |-> 0]]
    /\ UNCHANGED <<oldVars, xl, fp, san, cap, tc, wd, px>>

\* tasks = [(v, i) for v in range(start_vol, end_vol + 1)
\*                 for i in range(1, max_issue + 1)]
InitMdpiHtml ==
    /\ \E a, b \in 1..MaxVol, m \in 0..MaxIssue :
          mh = [pc |-> "pool", run |-> 1,
                tasks |-> (a..b) \X (1..m),
                files |-> [t \in AllTasks |-> AbsentHtml],
                before |-> [t \in AllTasks |-> AbsentHtml],
                at |-> [t \in AllTasks |-> "queued"],
                launched |-> [t \in AllTasks |-> 0]]
    /\ IdleOld
    /\ px = NoPx
    /\ xl = NoXl /\ fp = NoFp /\ san = NoSan /\ cap = NoCap /\ tc = NoTc /\ wd = NoWd

NextMdpiHtml ==
    \/ \E t \in AllTasks : MhStart(t)
    \/ \E t \in AllTasks : MhSave(t)
    \/ \E t \in AllTasks : MhFail(t)
    \/ \E t \in AllTasks : MhWriteFails(t)
    \/ MhDone
    \/ MhRunAgain

SpecMdpiHtml == InitMdpiHtml /\ [][NextMdpiHtml]_vars

-----------------------------------------------------------------------------
\* sanitize / sanitize_filename applied to one string, and to its own result

\* longest argument the model draws
MaxTextLen == 2

\* the characters of the arguments
TextChars == {"\\", "/", "*", "?", ":", "\"", "<", ">", "|", "1", ".", "a", "_", " "}

Texts(n) == UNION {[1..k -> TextChars] : k \in 0..n}

Sanitize ==
    /\ san.pc = "call"
    /\ san' = [san EXCEPT !.pc = "done", !.once = sanitize(san.text),
                          !.twice = sanitize(sanitize(san.text))]
    /\ UNCHANGED <<oldVars, xl, fp, mh, cap, tc, wd, px>>

InitSanitize ==
    /\ \E t \in Texts(MaxTextLen) :
          san = [pc |-> "call", text |-> t, once |-> <<>>, twice |-> <<>>]
    /\ IdleOld
    /\ px = NoPx
    /\ xl = NoXl /\ fp = NoFp /\ mh = NoMh /\ cap = NoCap /\ tc = NoTc /\ wd = NoWd

NextSanitize ==
    \/ Sanitize

SpecSanitize == InitSanitize /\ [][NextSanitize]_vars

-----------------------------------------------------------------------------
\* detect_captcha (01_collect_html_pages_playwright_persistent.py and
\* old.01_collect_html_pages.window.donotclose.py)
\*
\* A page is its body text and the src attributes of its iframes;
\* page.content() serialises both.

\* most iframes on a page
MaxIframes == 2

TRIGGERS ==
    {<<"v", "e", "r", "i", "f", "y", "i", "n", "g", " ", "y", "o", "u", " ", "a", "r", "e", " ", "h", "u", "m", "a", "n">>,
     <<"p", "l", "e", "a", "s", "e", " ", "e", "n", "a", "b", "l", "e", " ", "j", "a", "v", "a", "s", "c", "r", "i", "p", "t", " ", "a", "n", "d", " ", "c", "o", "o", "k", "i", "e", "s", " ", "t", "o", " ", "c", "o", "n", "t", "i", "n", "u", "e">>,
     <<"c", "f", "-", "t", "u", "r", "n", "s", "t", "i", "l", "e">>,
     <<"g", "-", "r", "e", "c", "a", "p", "t", "c", "h", "a">>,
     <<"h", "-", "c", "a", "p", "t", "c", "h", "a">>,
     <<"c", "a", "p", "t", "c", "h", "a">>}

RECAPTCHA == <<"r", "e", "c", "a", "p", "t", "c", "h", "a">>
TURNSTILE == <<"t", "u", "r", "n", "s", "t", "i", "l", "e">>

PageBodies ==
    {<<"<", "u", "l", " ", "i", "d", "=", "s", "e", "a", "r", "c", "h", "-", "r", "e", "s", "u", "l", "t", ">">>,
     <<"V", "e", "r", "i", "f", "y", "i", "n", "g", " ", "y", "o", "u", " ", "a", "r", "e", " ", "h", "u", "m", "a", "n">>,
     <<"<", "d", "i", "v", " ", "c", "l", "a", "s", "s", "=", "C", "F", "-", "T", "u", "r", "n", "s", "t", "i", "l", "e", ">">>,
     <<"S", "o", "l", "v", "e", " ", "t", "h", "e", " ", "C", "A", "P", "T", "C", "H", "A">>,
     <<"t", "u", "r", "n", "s", "t", "i", "l", "e">>}

IframeSrcs ==
    {<<"/", "/", "g", ".", "c", "o", "/", "r", "e", "c", "a", "p", "t", "c", "h", "a", "/", "a", "p", "i">>,
     <<"/", "/", "c", ".", "c", "o", "m", "/", "t", "u", "r", "n", "s", "t", "i", "l", "e", "/", "v", "0">>,
     <<"/", "/", "a", "d", "s", ".", "n", "e", "t", "/", "x">>}

IframeTag(src) == <<"<", "i", "f", "r", "a", "m", "e", " ", "s", "r", "c", "=">> \o src \o <<">">>

\* the iframe tags of the page, in some order
RECURSIVE IframeTags(_)
IframeTags(srcs) ==
    IF srcs = {} THEN <<>>
    ELSE LET x == CHOOSE y \in srcs : TRUE
         IN  IframeTag(x) \o IframeTags(srcs \ {x})

\* page.content()
Content(body, srcs) == body \o IframeTags(srcs)

\* html.lower()
PageLowerNot(html) == html

PageLower(html) == Lower(html)

\* any(t in html for t in triggers)
AnyTrigger(html) == \E t \in TRIGGERS : Contains(html, t)

\* page.query_selector("iframe[src*='recaptcha']") or
\* page.query_selector("iframe[src*='turnstile']")
QueryIframes(srcs) ==
    \E x \in srcs : Contains(x, RECAPTCHA) \/ Contains(x, TURNSTILE)

\* page.content() raises: except Exception: pass; return False
DetectContentFails ==
    /\ cap.pc = "call"
    /\ cap.contentFails
    /\ cap' = [cap EXCEPT !.pc = "done", !.ret = "False"]
    /\ UNCHANGED <<oldVars, xl, fp, mh, san, tc, wd, px>>

\* page.content() returns; the triggers are looked for in its lower case
DetectRead ==
    /\ cap.pc = "call"
    /\ ~cap.contentFails
    /\ LET html == PageLower(Content(cap.body, cap.iframes))
       IN  IF AnyTrigger(html)
           THEN cap' = [cap EXCEPT !.pc = "done", !.html = html, !.ret = "True"]
           ELSE cap' = [cap EXCEPT !.pc = "query", !.html = html]
    /\ UNCHANGED <<oldVars, xl, fp, mh, san, tc, wd, px>>

\* the iframe selectors are queried
DetectQuery ==
    /\ cap.pc = "query"
    /\ cap' = [cap EXCEPT !.pc = "done",
                 !.ret = IF ~cap.queryFails /\ QueryIframes(cap.iframes)
                         THEN "True" ELSE "False"]
    /\ UNCHANGED <<oldVars, xl, fp, mh, san, tc, wd, px>>

InitDetect ==
    /\ \E b \in PageBodies, f \in SUBSET IframeSrcs, cf, qf \in BOOLEAN :
          /\ Cardinality(f) <= MaxIframes
          /\ cap = [pc |-> "call", body |-> b, iframes |-> f,
                    contentFails |-> cf, queryFails |-> qf,
                    html |-> <<>>, ret |-> "none"]
    /\ IdleOld
    /\ px = NoPx
    /\ xl = NoXl /\ fp = NoFp /\ mh = NoMh /\ san = NoSan /\ tc = NoTc /\ wd = NoWd

NextDetect ==
    \/ DetectContentFails
    \/ DetectRead
    \/ DetectQuery

SpecDetect == InitDetect /\ [][NextDetect]_vars

-----------------------------------------------------------------------------
\* solve_captcha_2captcha (both persistent scrapers)
\*
\* tc.answers lists the JSON answers of res.php, one per poll; tc.err is the
\* exception that ended the call, if any.

MAX_POLLS_MUT == 60 + 1

\* for _ in range(60)
MAX_POLLS == 60

NOT_READY == "CAPCHA_NOT_READY"

\* the answers the service can give to a poll
PollAnswers ==
    {[status |-> 1, request |-> "TOKEN"],
     [status |-> 0, request |-> NOT_READY],
     [status |-> 0, request |-> "ERROR_CAPTCHA_UNSOLVABLE"]}

\* in.php answers with status 1 and the task id
TcSubmitted ==
    /\ tc.pc = "submit"
    /\ tc' = [tc EXCEPT !.pc = "poll"]
    /\ UNCHANGED <<oldVars, xl, fp, mh, san, cap, wd, px>>

\* in.php answers with another status: RuntimeError
TcSubmitRefused ==
    /\ tc.pc = "submit"
    /\ tc' = [tc EXCEPT !.pc = "raised", !.err = "RuntimeError"]
    /\ UNCHANGED <<oldVars, xl, fp, mh, san, cap, wd, px>>

\* requests.post / requests.get / .json() raises (connection error, 30 s
\* timeout, body that is not JSON): the exception leaves the function
TcRequestRaises ==
    /\ tc.pc \in {"submit", "poll"}
    /\ tc.pc = "poll" => tc.polls < MAX_POLLS
    /\ tc' = [tc EXCEPT !.pc = "raised", !.err = "RequestException"]
    /\ UNCHANGED <<oldVars, xl, fp, mh, san, cap, wd, px>>

\* one pass of the polling loop: sleep 5 s, ask res.php, act on the answer
TcPoll(a) ==
    /\ tc.pc = "poll"
    /\ tc.polls < MAX_POLLS
    /\ LET t == [tc EXCEPT !.polls = @ + 1, !.answers = Append(@, a)]
       IN  tc' = IF a.status = 1
                 THEN [t EXCEPT !.pc = "returned", !.token = a.request]
                 ELSE IF a.request # NOT_READY
                 THEN [t EXCEPT !.pc = "raised", !.err = "RuntimeError"]
                 ELSE t
    /\ UNCHANGED <<oldVars, xl, fp, mh, san, cap, wd, px>>

\* the loop is exhausted: RuntimeError (timeout)
TcTimeout ==
    /\ tc.pc = "poll"
    /\ tc.polls >= MAX_POLLS
    /\ tc' = [tc EXCEPT !.pc = "raised", !.err = "RuntimeError"]
    /\ UNCHANGED <<oldVars, xl, fp, mh, san, cap, wd, px>>

InitTwoCaptcha ==
    /\ \E sv \in {"turnstile", "recaptcha", "hcaptcha"} :
          tc = [pc |-> "submit", polls |-> 0, answers |-> <<>>, err |-> "none",
                token |-> "none", service |-> sv]
    /\ IdleOld
    /\ px = NoPx
    /\ xl = NoXl /\ fp = NoFp /\ mh = NoMh /\ san = NoSan /\ cap = NoCap /\ wd = NoWd

NextTwoCaptcha ==
    \/ TcSubmitted
    \/ TcSubmitRefused
    \/ TcRequestRaises
    \/ \E a \in PollAnswers : TcPoll(a)
    \/ TcTimeout

\* Every step is a request with a 30 s timeout or a sleep of 5 s, so the
\* function always takes its next step.
SpecTwoCaptcha == InitTwoCaptcha /\ [][NextTwoCaptcha]_vars /\ WF_vars(NextTwoCaptcha)

-----------------------------------------------------------------------------
\* wait_for_download_complete (MDPI/03_pdf_download.py)
\*
\* wd.folder is the set of file names in the folder, which Chrome changes
\* while the function waits; wd.found[j] tells whether poll j found a
\* .crdownload file.

\* largest timeout the model draws
MaxTimeout == 3

CRDOWNLOAD == <<".", "c", "r", "d", "o", "w", "n", "l", "o", "a", "d">>

FolderNames ==
    {<<"a", ".", "p", "d", "f", ".", "c", "r", "d", "o", "w", "n", "l", "o", "a", "d">>,
     <<"a", ".", "p", "d", "f">>,
     <<"c", "r", "d", "o", "w", "n", "l", "o", "a", "d", ".", "p", "d", "f">>}

\* s.endswith(suffix)
EndsWith(str, suffix) ==
    /\ Len(str) >= Len(suffix)
    /\ SubSeq(str, Len(str) - Len(suffix) + 1, Len(str)) = suffix

\* [f for f in os.listdir(folder) if f.endswith(".crdownload")]
Downloading(folder) == {f \in folder : EndsWith(f, CRDOWNLOAD)}

\* while waited < timeout
WdLoopingMut == wd.waited <= wd.timeout

WdLooping == wd.waited < wd.timeout

\* a poll finds no .crdownload file: return True
WdComplete ==
    /\ wd.pc = "wait" /\ WdLooping
    /\ Downloading(wd.folder) = {}
    /\ wd' = [wd EXCEPT !.pc = "returned", !.ret = "True",
                        !.found = Append(@, FALSE)]
    /\ UNCHANGED <<oldVars, xl, fp, mh, san, cap, tc, px>>

\* a poll finds one: sleep(1), waited += 1
WdStillDownloading ==
    /\ wd.pc = "wait" /\ WdLooping
    /\ Downloading(wd.folder) # {}
    /\ wd' = [wd EXCEPT !.waited = @ + 1, !.found = Append(@, TRUE)]
    /\ UNCHANGED <<oldVars, xl, fp, mh, san, cap, tc, px>>

\* the loop has ended: return False
WdTimedOut ==
    /\ wd.pc = "wait" /\ ~WdLooping
    /\ wd' = [wd EXCEPT !.pc = "returned", !.ret = "False"]
    /\ UNCHANGED <<oldVars, xl, fp, mh, san, cap, tc, px>>

\* Chrome creates, renames or removes files while the function sleeps
ChromeWrites ==
    /\ wd.pc = "wait"
    /\ \E f \in SUBSET FolderNames :
          /\ f # wd.folder
          /\ wd' = [wd EXCEPT !.folder = f]
    /\ UNCHANGED <<oldVars, xl, fp, mh, san, cap, tc, px>>

InitWait ==
    /\ \E t \in 0..MaxTimeout, f \in SUBSET FolderNames :
          wd = [pc |-> "wait", timeout |-> t, waited |-> 0, folder |-> f,
                found |-> <<>>, ret |-> "none"]
    /\ IdleOld
    /\ px = NoPx
    /\ xl = NoXl /\ fp = NoFp /\ mh = NoMh /\ san = NoSan /\ cap = NoCap /\ tc = NoTc

WdStep == WdComplete \/ WdStillDownloading \/ WdTimedOut

NextWait ==
    \/ WdComplete
    \/ WdStillDownloading
    \/ WdTimedOut
    \/ ChromeWrites

\* The function's own steps (listdir, sleep(1)) always complete, whatever
\* Chrome does in between.
SpecWait == InitWait /\ [][NextWait]_vars /\ WF_vars(WdStep)

-----------------------------------------------------------------------------
\* Metadata extractors: Wiley 02_parse_html_to_csv.py ("wiley") and MDPI
\* 02_extract_metadata.py ("mdpi")
\*
\* px.dir maps the name of every HTML file of the source directory to the
\* articles it lists; file names are numbered in their sorted order.  A
\* record is identified by its file and its position in the file.

\* most articles listed in one HTML file
MaxArticles == 2

FileNames == {1, 2}

\* pandas' missing value: the doi of a record parsed as None
NoDoi == <<"N", "a", "N">>

ParseDois == {DoiA, DoiB}

\* an article block: its DOI link, if any, and whether it has a title link
Articles == [doi : ParseDois \cup {NoDoi}, titled : BOOLEAN]

\* the article blocks a Wiley result page holds: the DOI is taken from the
\* title link, so there is one exactly when there is a title
WileyArticles == {a \in Articles : a.titled = (a.doi # NoDoi)}

\* sorted(...)
RECURSIVE Sorted(_)
Sorted(S) ==
    IF S = {} THEN <<>>
    ELSE LET m == CHOOSE x \in S : \A y \in S : x <= y
         IN  <<m>> \o Sorted(S \ {m})

\* parse_single appends a record for every li; parse_file keeps the records
\* that have a title
Kept(v, a) == v = "wiley" \/ a.titled

RECURSIVE ParseFrom(_, _, _, _)
ParseFrom(v, f, arts, i) ==
    IF i > Len(arts) THEN <<>>
    ELSE (IF Kept(v, arts[i])
          THEN <<[doi |-> arts[i].doi, file |-> f, pos |-> i]>>
          ELSE <<>>) \o ParseFrom(v, f, arts, i + 1)

\* df.drop_duplicates(subset=["doi"]): keep="first"; missing values count
\* as equal to each other
RECURSIVE DropFrom(_, _)
DropFrom(recs, seen) ==
    IF recs = <<>> THEN <<>>
    ELSE IF Head(recs).doi \in seen
         THEN DropFrom(Tail(recs), seen)
         ELSE <<Head(recs)>> \o DropFrom(Tail(recs), seen \cup {Head(recs).doi})

DropDuplicatesNot(recs) == recs

DropDuplicates(recs) == DropFrom(recs, {})

\* one pass of main's loop over the sorted files
ParseNextFile ==
    /\ px.pc = "parse"
    /\ px.todo # <<>>
    /\ LET f == Head(px.todo)
       IN  px' = [px EXCEPT !.todo = Tail(@),
                            !.records = @ \o ParseFrom(px.variant, f, px.dir[f], 1)]
    /\ UNCHANGED <<oldVars, xl, fp, mh, san, cap, tc, wd>>

\* DataFrame, drop_duplicates, to_csv
SaveCsv ==
    /\ px.pc = "parse"
    /\ px.todo = <<>>
    /\ px.records # <<>>
    /\ px' = [px EXCEPT !.pc = "saved", !.csv = DropDuplicates(px.records)]
    /\ UNCHANGED <<oldVars, xl, fp, mh, san, cap, tc, wd>>

\* no record at all: the DataFrame has no doi column and drop_duplicates
\* raises KeyError
SaveRaises ==
    /\ px.pc = "parse"
    /\ px.todo = <<>>
    /\ px.records = <<>>
    /\ px' = [px EXCEPT !.pc = "raised"]
    /\ UNCHANGED <<oldVars, xl, fp, mh, san, cap, tc, wd>>

InitParse ==
    /\ \E v \in {"wiley", "mdpi"}, names \in SUBSET FileNames :
          \E d \in [names -> UNION {[1..n -> Articles] : n \in 0..MaxArticles}] :
              /\ v = "wiley" =>
                    \A f \in names : \A i \in DOMAIN d[f] : d[f][i] \in WileyArticles
              /\ px = [pc |-> "parse", variant |-> v, dir |-> d,
                       todo |-> Sorted(names), records |-> <<>>, csv |-> <<>>]
    /\ IdleOld
    /\ xl = NoXl /\ fp = NoFp /\ mh = NoMh /\ san = NoSan
    /\ cap = NoCap /\ tc = NoTc /\ wd = NoWd

NextParse ==
    \/ ParseNextFile
    \/ SaveCsv
    \/ SaveRaises

SpecParse == InitParse /\ [][NextParse]_vars

-----------------------------------------------------------------------------
\* Claims about the downloaders

\* content sniffing as the claims state it: the leading bytes hold the PDF
\* magic bytes and are not an HTML page
LooksLikePdf(bytes) ==
    /\ \E k \in 1..Len(bytes) :
          k + 3 <= Len(bytes) /\ <<bytes[k], bytes[k+1], bytes[k+2], bytes[k+3]>> = <<"%", "P", "D", "F">>
    /\ ~\E k \in 1..Len(bytes) :
          /\ k + 4 <= Len(bytes)
          /\ bytes[k] = "<"
          /\ bytes[k+1] \in {"h", "H"}
          /\ bytes[k+2] \in {"t", "T"}
          /\ bytes[k+3] \in {"m", "M"}
          /\ bytes[k+4] \in {"l", "L"}

\* C1: one download_one call makes at most 3 fetch attempts for its DOI, and
\* makes no further attempt once an attempt has been accepted as a PDF.
C1_AtMostThreeFetches ==
    /\ [](\A i \in DOMAIN task : task[i].fetches <= 3)
    /\ [][\A i \in DOMAIN task :
            (task[i].status = "success" /\ i \in DOMAIN task')
                => task'[i].fetches = task[i].fetches]_vars

\* C1 witness: a call accepted its third attempt, and another call used up
\* three attempts without success.
C1_Witness ==
    /\ \E i \in DOMAIN task : task[i].status = "success" /\ task[i].fetches = 3
    /\ \E i \in DOMAIN task : task[i].status = "failed" /\ task[i].fetches = 3

\* number of input values that start with "10."
NumTenDot == Cardinality({k \in DOMAIN meta : meta[k][1] = "1" /\ meta[k][2] = "0" /\ meta[k][3] = "."})

\* C2: when main's pool loop has finished, the results table holds exactly
\* one row per input DOI starting with "10." (idx 1..n, each once), and every
\* status is success, exists or failed.
C2_OneRowPerDoi ==
    mainPc = "saved" =>
        /\ Len(results) = NumTenDot
        /\ \A n \in 1..NumTenDot :
              Cardinality({k \in DOMAIN results : results[k].idx = n}) = 1
        /\ \A k \in DOMAIN results :
              results[k].status \in {"success", "exists", "failed"}

\* C2 witness: the loop finished with two rows that arrived out of idx
\* order, after one input value was filtered out.
C2_Witness ==
    /\ mainPc = "saved"
    /\ Len(results) = 2
    /\ results[1].idx = 2
    /\ results[1].status # results[2].status

\* C3 (as stated): in all three scripts, success is reported only for a file
\* whose leading bytes hold the PDF magic bytes and are not an HTML page.
C3_SuccessOnlyAfterSniff ==
    \A i \in DOMAIN task :
        task[i].status = "success" => LooksLikePdf(task[i].got.head)

\* C3 (amended): in the two curl-based scripts success is reported only for
\* a file whose leading bytes hold the PDF magic bytes and are not an HTML
\* page; in the requests-based script success is reported only for a
\* response with status 200 whose Content-Type contains "pdf".
C3_SuccessOnlyAfterValidation ==
    \A i \in DOMAIN task :
        task[i].status = "success" =>
            IF variant = "requests"
            THEN task[i].code = 200 /\ task[i].ctype = CT_PDF
            ELSE LooksLikePdf(task[i].got.head)

\* C3 witness: a curl-based call succeeded after an attempt was rejected.
C3_Witness ==
    \E i \in DOMAIN task :
        /\ variant # "requests"
        /\ task[i].status = "success"
        /\ task[i].attempt >= 1

\* C4: if a call returned success, a second call with the same arguments and
\* no intervening change to the directory performs no fetch, leaves the
\* stored file unchanged and returns exists.
C4_SecondCallReturnsExists ==
    \A i \in DOMAIN task :
        (run = 2 /\ prev.status[i] = "success") =>
            /\ task[i].fetches = 0
            /\ fs[Out(i)] = prev.fs[Out(i)]
            /\ task[i].pc = "done" => task[i].status = "exists"

\* C5: for two distinct DOIs of one run's input, the two download_one calls
\* never read, write or delete the same file path.
C5_NoSharedPath ==
    \A i, j \in DOMAIN task :
        data[i].doi # data[j].doi => task[i].touched \cap task[j].touched = {}

-----------------------------------------------------------------------------
\* Claims about check_pdf_valid

\* the first n bytes of a file
FirstBytes(f, n) == [k \in 1..(IF Len(f.head) < n THEN Len(f.head) ELSE n) |-> f.head[k]]

\* the bytes start with <html, in any letter case
IsHtmlPage(bytes) ==
    /\ Len(bytes) >= 5
    /\ bytes[1] = "<"
    /\ bytes[2] \in {"h", "H"}
    /\ bytes[3] \in {"t", "T"}
    /\ bytes[4] \in {"m", "M"}
    /\ bytes[5] \in {"l", "L"}

\* C6 (as stated): check_pdf_valid returns True only for a readable file
\* whose first bytes are the %PDF header, and returns False for any file
\* whose head is an HTML page or that cannot be read.
C6_TrueOnlyForPdfHeader ==
    pdfRet # "none" =>
        /\ pdfRet = "True" =>
              /\ pdfFile.readable
              /\ Len(pdfFile.given.head) >= 4
              /\ <<pdfFile.given.head[1], pdfFile.given.head[2],
                   pdfFile.given.head[3], pdfFile.given.head[4]>> = <<"%", "P", "D", "F">>
        /\ (~pdfFile.readable \/ IsHtmlPage(pdfFile.given.head)) => pdfRet = "False"

\* C6 (amended): check_pdf_valid returns True only for a readable file whose
\* first 100 bytes (200 in the retry script) contain the bytes %PDF and do
\* not contain <html in any letter case; it returns False for every other
\* file, in particular one whose head is an HTML page or that cannot be read.
C6_TrueIffHeadContainsPdf ==
    pdfRet # "none" =>
        LET n == IF pdfVariant = "retry" THEN 200 ELSE 100
            ok == /\ pdfFile.readable
                  /\ pdfFile.given.size >= 0
                  /\ LooksLikePdf(FirstBytes(pdfFile.given, n))
        IN  /\ pdfRet = "True" <=> ok
            /\ (~pdfFile.readable \/ IsHtmlPage(pdfFile.given.head)) => pdfRet = "False"

\* C6 witness: True was returned for a file that does not start with %PDF,
\* in the script that reads 100 bytes.
C6_Witness ==
    /\ pdfRet = "True"
    /\ pdfVariant = "curl"
    /\ pdfFile.given.head[1] # "%"
    /\ Len(pdfFile.given.head) > 100

-----------------------------------------------------------------------------
\* Claims about the cookies file

\* C7: if the cookies file is the storage-state JSON written by
\* save_profile_state and holds at least one cookie, load_cookies returns a
\* name-to-value mapping containing every one of those cookies, which is the
\* mapping attached to the download sessions.
C7_LoadsSavedCookies ==
    (ckPc = "loaded" /\ cookieFile.kind = "dict" /\ Len(cookieFile.items) >= 1) =>
        \A i \in DOMAIN cookieFile.items :
            \E c \in session : c.name = cookieFile.items[i].name
                               /\ c.value = cookieFile.items[i].value

-----------------------------------------------------------------------------
\* Claims about the persistent scraper

C9_FailureIsSkipped ==
    scr.pc \in {"closed", "aborted"} =>
        /\ \A k \in scr.start..scr.end :
              \E p \in DOMAIN scr.log :
                  scr.log[p].ev \in {"goto", "goto_failed"} /\ scr.log[p].k = k
        /\ Len(scr.log) >= 2
        /\ scr.log[Len(scr.log)].ev = "close"
        /\ scr.log[Len(scr.log) - 1].ev = "save"

\* what the extraction step of one index leaves in the log
ExtractionEvents == {"write_page", "write_fallback", "write_error", "handler_raised"}

\* C17: in headful mode, after a CAPTCHA was detected on a page, nothing of
\* that page is extracted before the operator has confirmed with Enter.
C17_WaitsForOperator ==
    scr.headful =>
        \A p, q \in DOMAIN scr.log :
            (/\ p < q
             /\ scr.log[p].ev = "captcha"
             /\ scr.log[q].k = scr.log[p].k
             /\ scr.log[q].ev \in ExtractionEvents)
            => \E r \in (p + 1)..(q - 1) : scr.log[r].ev = "enter"

\* the navigations of the log, in order
Visits == SelectSeq(scr.log, LAMBDA e : e.ev \in {"goto", "goto_failed"})

\* C18: when fetch_range_persistent has ended, it has visited every index of
\* start..end exactly once in ascending order, and it has written at most
\* one of page_XXX.html, fallback_page_XXX.html, error_page_XXX.html for
\* each index.
C18_EveryIndexVisitedOnce ==
    /\ scr.pc \in {"closed", "aborted"} =>
          /\ Len(Visits) = (IF scr.end >= scr.start THEN scr.end - scr.start + 1 ELSE 0)
          /\ \A j \in DOMAIN Visits : Visits[j].k = scr.start + j - 1
    /\ \A p, q \in DOMAIN scr.log :
          (/\ scr.log[p].ev \in {"write_page", "write_fallback", "write_error"}
           /\ scr.log[q].ev \in {"write_page", "write_fallback", "write_error"}
           /\ scr.log[p].k = scr.log[q].k) => p = q

-----------------------------------------------------------------------------
\* Claims about split_pdf_folders

\* C10: when split_pdf_folders has moved every listed PDF, the file counts
\* of any two of the ten folders PDF_01..PDF_10 differ by at most one.
C10_EvenSplit ==
    (spl.pc = "done" /\ spl.failed = {}) =>
        \A a, b \in Folders : FolderCount(a) - FolderCount(b) <= 1

\* C11: when split_pdf_folders reports completion, every listed .pdf file is
\* in one of PDF_01..PDF_10 and none remains in mdpi_pdfs.
C11_AllMovedAtCompletion ==
    spl.pc = "done" =>
        \A f \in DOMAIN spl.where : spl.where[f] \in Folders

-----------------------------------------------------------------------------
\* Claims about extract_failed_dois_from_log

\* C12: every DOI written to the output is a DOI whose download ended with
\* status failed in the logged run, and a DOI that was downloaded
\* successfully in that run is not listed.
C12_OnlyFailedDoisListed ==
    xl.pc = "extracted" =>
        \A i \in DOMAIN xl.dois :
            xl.dois[i] \in xl.out => xl.status[i] = "failed"

-----------------------------------------------------------------------------
\* Claims about fetch_page

\* C13: a fetch_page call ends by returning True when it wrote
\* page_XXX.html during the call and by returning False otherwise; it makes
\* at most max_attempts navigation attempts and none after the first
\* successful one.
C13_ReturnsWhetherWritten ==
    /\ fp.pc \in {"returned", "raised"} =>
          /\ fp.pc = "returned"
          /\ (fp.ret = "True") = (fp.file = "page")
    /\ Len(fp.tries) <= fp.max_attempts
    /\ \A j \in DOMAIN fp.tries : fp.tries[j] = "saved" => j = Len(fp.tries)

-----------------------------------------------------------------------------
\* Claims about the MDPI HTML fetcher

\* C14: for every (volume, issue) whose HTML file existed when the run
\* started, the run launches no browser and leaves the file as it was.
C14_SavedPagesAreSkipped ==
    \A t \in mh.tasks :
        mh.before[t].kind # "absent" =>
            /\ mh.launched[t] = 0
            /\ mh.files[t] = mh.before[t]

\* C14 witness: the second run has ended; it skipped a page saved by the
\* first run.
C14_Witness ==
    /\ mh.pc = "done" /\ mh.run = 2
    /\ \E t \in mh.tasks :
          /\ mh.before[t] = [kind |-> "page", run |-> 1]
          /\ mh.at[t] = "skipped"

\* C21: when main logs that all HTML files are downloaded, every task
\* (volume, issue) of the run was attempted at most once and its
\* vol{V}_iss{I}.html file is saved.
C21_AllPagesSavedAtEnd ==
    mh.pc = "done" =>
        \A t \in mh.tasks :
            /\ mh.launched[t] <= 1
            /\ mh.files[t].kind = "page"

-----------------------------------------------------------------------------
\* Claims about sanitize

\* C15: the result of sanitize has the length of its argument, contains none
\* of the characters \ / * ? : " < > |, equals the argument at every
\* position where the argument holds none of them, and sanitizing the result
\* again changes nothing.
C15_SanitizeReplacesInPlace ==
    san.pc = "done" =>
        LET bad == {"\\", "/", "*", "?", ":", "\"", "<", ">", "|"}
        IN  /\ Len(san.once) = Len(san.text)
            /\ \A i \in DOMAIN san.once : san.once[i] \notin bad
            /\ \A i \in DOMAIN san.text :
                  san.text[i] \notin bad => san.once[i] = san.text[i]
            /\ san.twice = san.once

\* C15 witness: an argument holding a colon and an ordinary character was
\* sanitized.
C15_Witness ==
    /\ san.pc = "done"
    /\ \E i, j \in DOMAIN san.text : san.text[i] = ":" /\ san.text[j] = "a"
    /\ san.once # san.text

-----------------------------------------------------------------------------
\* Claims about detect_captcha

\* C16: detect_captcha returns True exactly when the page could be read and
\* its lower-cased HTML contains one of the trigger substrings or the page
\* has an iframe whose src contains recaptcha or turnstile; when reading the
\* page fails it returns False; it never raises.
C16_DetectsTriggersAndIframes ==
    cap.pc = "done" =>
        LET low == Lower(Content(cap.body, cap.iframes))
            trig == \/ Contains(low, <<"v", "e", "r", "i", "f", "y", "i", "n", "g", " ", "y", "o", "u", " ", "a", "r", "e", " ", "h", "u", "m", "a", "n">>)
                    \/ Contains(low, <<"p", "l", "e", "a", "s", "e", " ", "e", "n", "a", "b", "l", "e", " ", "j", "a", "v", "a", "s", "c", "r", "i", "p", "t", " ", "a", "n", "d", " ", "c", "o", "o", "k", "i", "e", "s", " ", "t", "o", " ", "c", "o", "n", "t", "i", "n", "u", "e">>)
                    \/ Contains(low, <<"c", "f", "-", "t", "u", "r", "n", "s", "t", "i", "l", "e">>)
                    \/ Contains(low, <<"g", "-", "r", "e", "c", "a", "p", "t", "c", "h", "a">>)
                    \/ Contains(low, <<"h", "-", "c", "a", "p", "t", "c", "h", "a">>)
                    \/ Contains(low, <<"c", "a", "p", "t", "c", "h", "a">>)
            frame == \E x \in cap.iframes :
                        \/ Contains(x, <<"r", "e", "c", "a", "p", "t", "c", "h", "a">>)
                        \/ Contains(x, <<"t", "u", "r", "n", "s", "t", "i", "l", "e">>)
        IN  /\ cap.ret \in {"True", "False"}
            /\ (~cap.contentFails /\ ~cap.queryFails) =>
                  ((cap.ret = "True") = (trig \/ frame))
            /\ cap.contentFails => cap.ret = "False"
            /\ (cap.queryFails /\ ~trig) => cap.ret = "False"

\* C16 witness: a page without trigger text but with a turnstile iframe was
\* read and reported, and so was a page whose trigger is in upper case.
C16_Witness ==
    /\ cap.pc = "done" /\ cap.ret = "True"
    /\ ~cap.contentFails /\ ~cap.queryFails
    /\ \/ cap.body = <<"<", "u", "l", " ", "i", "d", "=", "s", "e", "a", "r", "c", "h", "-", "r", "e", "s", "u", "l", "t", ">">>
       \/ cap.body = <<"S", "o", "l", "v", "e", " ", "t", "h", "e", " ", "C", "A", "P", "T", "C", "H", "A">>

-----------------------------------------------------------------------------
\* Claims about solve_captcha_2captcha

\* what C19 says of every state of a call
TcSafe ==
    /\ tc.polls <= 60
    /\ Len(tc.answers) = tc.polls
    /\ tc.pc = "returned" =>
          /\ tc.answers[tc.polls].status = 1
          /\ tc.token = tc.answers[tc.polls].request
    /\ \A j \in DOMAIN tc.answers :
          (tc.answers[j].status # 1 /\ tc.answers[j].request # "CAPCHA_NOT_READY") =>
              /\ j = tc.polls
              /\ tc.pc = "raised" /\ tc.err = "RuntimeError"
    /\ \A j \in DOMAIN tc.answers : tc.answers[j].status = 1 => j = tc.polls
    /\ (tc.polls = 60 /\ tc.pc = "raised" /\ tc.answers[60].request = "CAPCHA_NOT_READY") =>
          tc.err = "RuntimeError"

\* C19: solve_captcha_2captcha always terminates; it polls at most 60
\* times, returns a token only when a poll answers status 1, raises
\* RuntimeError on the first answer that is neither status 1 nor
\* CAPCHA_NOT_READY, and raises RuntimeError after 60 not-ready answers.
C19_PollsAtMostSixtyTimes ==
    /\ []TcSafe
    /\ <>(tc.pc \in {"returned", "raised"})

\* C19 witness: sixty polls were answered not ready and the call raised.
C19_Witness ==
    /\ tc.pc = "raised" /\ tc.err = "RuntimeError"
    /\ tc.polls = 60
    /\ \A j \in DOMAIN tc.answers : tc.answers[j].request = "CAPCHA_NOT_READY"

-----------------------------------------------------------------------------
\* Claims about wait_for_download_complete

\* what C20 says of every state of a call
WdSafe ==
    /\ Len(wd.found) <= wd.timeout
    /\ wd.ret = "True" =>
          /\ wd.found # <<>>
          /\ ~wd.found[Len(wd.found)]
          /\ \A f \in wd.folder :
                Len(f) < 11 \/ SubSeq(f, Len(f) - 10, Len(f)) # CRDOWNLOAD
    /\ wd.ret = "False" =>
          /\ Len(wd.found) = wd.timeout
          /\ \A j \in DOMAIN wd.found : wd.found[j]

\* C20: wait_for_download_complete returns True only when a poll of the
\* folder found no .crdownload file, returns False after timeout polls that
\* each found one, and always terminates within timeout polls.
C20_WaitsAtMostTimeoutPolls ==
    /\ []WdSafe
    /\ <>(wd.pc = "returned")

\* C20 witness: every one of two or more polls found a .crdownload file and
\* the call returned False.
C20_Witness ==
    /\ wd.pc = "returned" /\ wd.ret = "False"
    /\ Len(wd.found) >= 2

-----------------------------------------------------------------------------
\* Claims about the metadata extractors

\* r comes before q in sorted file order
Earlier(r, q) == r.file < q.file \/ (r.file = q.file /\ r.pos < q.pos)

\* C22: no two rows of the output CSV have the same DOI, and of the parsed
\* records with one DOI the row kept is the first in sorted file order.
C22_FirstRecordPerDoiKept ==
    px.pc = "saved" =>
        /\ \A i, j \in DOMAIN px.csv : px.csv[i].doi = px.csv[j].doi => i = j
        /\ \A i \in DOMAIN px.csv : \A k \in DOMAIN px.records :
              px.records[k].doi = px.csv[i].doi => ~Earlier(px.records[k], px.csv[i])
        /\ \A k \in DOMAIN px.records : \E i \in DOMAIN px.csv :
              px.csv[i].doi = px.records[k].doi

\* C22 witness: two files list an article with the same DOI and the CSV was
\* saved with fewer rows than records.
C22_Witness ==
    /\ px.pc = "saved"
    /\ \E j, k \in DOMAIN px.records :
          /\ px.records[j].doi = px.records[k].doi
          /\ px.records[j].doi \in ParseDois
          /\ px.records[j].file < px.records[k].file
    /\ Len(px.csv) < Len(px.records)

\* C23: every parsed record that has no DOI is a row of the output CSV.
C23_RecordsWithoutDoiKept ==
    px.pc = "saved" =>
        \A k \in DOMAIN px.records :
            px.records[k].doi = NoDoi =>
                \E i \in DOMAIN px.csv : px.csv[i] = px.records[k]

====
